---- MODULE Spec2Model ----
(***************************************************************************)
(* TwistConfiguration (src/src/TwistConfiguration.js) together with its    *)
(* LibraryLoader / LibraryInfo (src/README.md, lines 44-217).              *)
(*                                                                         *)
(* The program is synchronous and recursive: load() calls mergeConfig(),   *)
(* which calls addLibrary() -> load() for every declared sub-library.  The *)
(* recursion is modelled with an explicit call stack; one action is one    *)
(* call of load() up to the point where it hands the document to           *)
(* mergeConfig (or returns / throws), or one callback of _forEachConfig.   *)
(* The code has no try/catch around load or mergeConfig, so a throw        *)
(* unwinds the whole stack in the step that raises it.                     *)
(***************************************************************************)
EXTENDS Integers, Sequences, FiniteSets, TLC

VARIABLES
    context,        \* this.context
    _options,       \* this._options                  (name -> value)
    _components,    \* this._components               (name -> declaration)
    _decorators,    \* this._decorators               (name -> declaration)
    _babelPlugins,  \* this._babelPlugins             (sequence of [plugin, options])
    libraryInfos,   \* LibraryLoader.libraryInfos     (sequence of LibraryInfo)
    currentLibrary, \* LibraryLoader.currentLibrary   (0 = the '(root)' LibraryInfo, else index in libraryInfos)
    stack,          \* the JavaScript call stack of load()/mergeConfig() activations, innermost first
    pc,             \* where the owner of the object is: "constructor", "constructing", "ready", "dead"
    ctorOptions,    \* the `options` argument of the constructor
    err,            \* the error the last top-level call threw ("none" when it returned)
    message,        \* what the message of that error says, for a version conflict
    call,           \* the call performed by the last step (what a spy on the methods would record)
    mergeCalls,     \* the calls of mergeConfig so far (sinon.spy(config, 'mergeConfig'))
    warnings,       \* the console.warn calls so far
    calls           \* number of top-level calls made on the constructed object

vars == <<context, _options, _components, _decorators, _babelPlugins, libraryInfos,
          currentLibrary, stack, pc, ctorOptions, err, message, call, mergeCalls, warnings,
          calls>>

-----------------------------------------------------------------------------
(* Bounds *)

\* Top-level calls (addLibrary / setOption) made by the owner after construction.
MaxCalls == 2

-----------------------------------------------------------------------------
(* JavaScript values *)

Undefined == "<undefined>"
Null == "<null>"

\* An object used as an options bag is a sequence of <<key, value>> pairs in
\* insertion order (JavaScript keeps the insertion order of string keys, and
\* JSON.stringify / Object.keys / Object.assign enumerate in that order).
EmptyObject == <<>>

HasKey(obj, k) == \E i \in 1..Len(obj) : obj[i][1] = k

\* obj[k]
Get(obj, k) ==
    IF HasKey(obj, k)
    THEN obj[CHOOSE i \in 1..Len(obj) : obj[i][1] = k][2]
    ELSE Undefined

Keys(obj) == { obj[i][1] : i \in 1..Len(obj) }

\* Deep ("structural") equality of two bags: same keys mapped to equal values.
StructurallyEqual(a, b) ==
    /\ Keys(a) = Keys(b)
    /\ \A k \in Keys(a) : Get(a, k) = Get(b, k)

-----------------------------------------------------------------------------
(* File names.  A path is the sequence of its segments; an absolute path   *)
(* starts with the segment "/".  A library reference (the `libraryName` of *)
(* load) is either an absolute path or an npm module name.                 *)

IsAbsolute(p) == Len(p) > 0 /\ p[1] = "/"

\* path.join(dir, file)
Join(dir, file) == Append(dir, file)

\* path.dirname(p)
Dirname(p) == SubSeq(p, 1, Len(p) - 1)

\* path.normalize(p): ".." removes the segment before it.
RECURSIVE NormalizeFrom(_, _)
NormalizeFrom(done, rest) ==
    IF rest = <<>> THEN done
    ELSE IF Head(rest) = ".." /\ Len(done) > 1
         THEN NormalizeFrom(SubSeq(done, 1, Len(done) - 1), Tail(rest))
         ELSE NormalizeFrom(Append(done, Head(rest)), Tail(rest))

Normalize(p) == NormalizeFrom(<<>>, p)

-----------------------------------------------------------------------------
(* The file system and module system the loader reads: the libraries of    *)
(* the repository's tests (testLibrary1..4, invalidLibrary, the repository *)
(* root, LibraryA/B/C of the duplicate-handling test) and a few more that  *)
(* exercise cycles, contexts and errors.                                   *)

Test == <<"/", "test">>
NodeModules == <<"/", "repo", "node_modules">>

testLibrary1   == Test \o <<"testLibrary1">>
testLibrary2   == Test \o <<"testLibrary2">>
testLibrary3   == Test \o <<"testLibrary3">>
testLibrary4   == Test \o <<"testLibrary4">>
invalidLibrary == Test \o <<"invalidLibrary">>
cwd            == <<"/", "repo">>                     \* process.cwd(): package.json, no .twistrc
LibraryA       == NodeModules \o <<"LibraryA">>
LibraryB       == NodeModules \o <<"LibraryB">>       \* LibraryB 2.0
LibraryC       == NodeModules \o <<"LibraryC">>
LibraryB4      == LibraryC \o <<"node_modules", "LibraryB">>   \* LibraryB 4.0
ping           == NodeModules \o <<"ping">>
pong           == NodeModules \o <<"pong">>
scoped         == NodeModules \o <<"@x", "y">>
badOption      == NodeModules \o <<"bad-option">>
badManifest    == NodeModules \o <<"bad-manifest">>
mixed          == NodeModules \o <<"mixed">>
LibraryB5      == mixed \o <<"node_modules", "LibraryB">>     \* LibraryB 5.0, .twistrc not JSON

\* The same directory as testLibrary2, written the way testLibrary4/.twistrc.js
\* builds its references before path.join normalizes them.
testLibrary2Dotted == testLibrary4 \o <<"..", "testLibrary2">>

Libraries == { testLibrary1, testLibrary2, testLibrary3, testLibrary4, invalidLibrary, cwd,
               LibraryA, LibraryB, LibraryC, LibraryB4, ping, pong, scoped, badOption,
               badManifest, mixed, LibraryB5 }

\* fs.existsSync
Files ==
    { Join(l, "package.json") : l \in Libraries }
    \cup { Join(l, ".twistrc") : l \in { testLibrary1, testLibrary3, invalidLibrary, LibraryA,
                                         LibraryB, LibraryC, LibraryB4, pong, scoped, badOption,
                                         mixed, LibraryB5 } }
    \cup { Join(l, ".twistrc.js") : l \in { testLibrary2, testLibrary4, ping, pong,
                                            invalidLibrary } }

ExistsSync(file) == file \in Files

\* require.resolve(request): the absolute file name of the module, or Undefined
\* when Node throws MODULE_NOT_FOUND.  An absolute request is normalized; a
\* module name is looked up in node_modules.
Unresolved == <<Undefined>>

RequireResolve(request) ==
    LET file == IF IsAbsolute(request) THEN Normalize(request)
                ELSE NodeModules \o request
    IN  IF ExistsSync(file) THEN file ELSE Unresolved

\* JSON.parse of <path>/package.json: the fields the loader reads.
Manifest(name, version) == [valid |-> TRUE, name |-> name, version |-> version]
MalformedJSON == [valid |-> FALSE, name |-> Undefined, version |-> Undefined]

PackageJson(libraryPath) ==
    CASE libraryPath = testLibrary1   -> Manifest("test-library1", "1.0.0")
      [] libraryPath = testLibrary2   -> Manifest("test-library2", "1.0.0")
      [] libraryPath = testLibrary3   -> Manifest("test-library3", "1.0.0")
      [] libraryPath = testLibrary4   -> Manifest("test-library4", "1.0.0")
      [] libraryPath = invalidLibrary -> Manifest("invalid-library", "1.0.0")
      [] libraryPath = cwd            -> Manifest("@twist/configuration", "0.1.0")
      [] libraryPath = LibraryA       -> Manifest("LibraryA", "1.0")
      [] libraryPath = LibraryB       -> Manifest("LibraryB", "2.0")
      [] libraryPath = LibraryC       -> Manifest("LibraryC", "3.0")
      [] libraryPath = LibraryB4      -> Manifest("LibraryB", "4.0")
      [] libraryPath = ping           -> Manifest("ping", "1.0")
      [] libraryPath = pong           -> Manifest("pong", "1.0")
      [] libraryPath = scoped         -> Manifest("@x/y", "1.0")
      [] libraryPath = badOption      -> Manifest("bad-option", "1.0")
      [] libraryPath = mixed          -> Manifest("mixed", "1.0")
      [] libraryPath = LibraryB5      -> Manifest("LibraryB", "5.0")
      [] OTHER                        -> MalformedJSON

-----------------------------------------------------------------------------
(* Configuration documents (.twistrc / .twistrc.js).                       *)
(*                                                                         *)
(* A section (libraries, decorators, components, babelPlugins, options) is *)
(* undefined, an array or an object.  An array element is a hole           *)
(* (undefined / null), a bare name, or an array [name] / [name, value]; an *)
(* object is its key/value pairs in insertion order.                       *)

NoSection      == [form |-> "undefined", entries |-> <<>>]
ArrayOf(es)    == [form |-> "array", entries |-> es]
ObjectOf(es)   == [form |-> "object", entries |-> es]

Hole           == [kind |-> "hole",  name |-> Undefined, given |-> FALSE, value |-> Undefined]
Bare(n)        == [kind |-> "bare",  name |-> n, given |-> FALSE, value |-> Undefined]
Only(n)        == [kind |-> "array", name |-> n, given |-> FALSE, value |-> Undefined]
Pair(n, v)     == [kind |-> "array", name |-> n, given |-> TRUE,  value |-> v]
Prop(k, v)     == [kind |-> "prop",  name |-> k, given |-> TRUE,  value |-> v]

\* A decorator / component declaration {module, export, inherits}; a field
\* that is not declared is Undefined.  `inherits` is undefined, a string or
\* an object {module, export}.
NoInherits           == [kind |-> "undefined", module |-> Undefined, export |-> Undefined]
InheritsName(e)      == [kind |-> "string", module |-> Undefined, export |-> e]
InheritsFrom(m, e)   == [kind |-> "object", module |-> m, export |-> e]
Declaration(m, e, i) == [module |-> m, export |-> e, inherits |-> i]
EmptyDeclaration     == Declaration(Undefined, Undefined, NoInherits)

NoContext == [given |-> FALSE, blocks |-> <<>>]

Document(libs, decs, comps, plugins, opts, ctx) ==
    [libraries |-> libs, decorators |-> decs, components |-> comps,
     babelPlugins |-> plugins, options |-> opts, context |-> ctx]

\* mergeConfig(config = {}): the document an undefined argument stands for.
EmptyDocument == Document(NoSection, NoSection, NoSection, NoSection, NoSection, NoContext)

StoreDecorator ==
    Pair("Store", Declaration("@twist/core", "Store", InheritsFrom("@twist/core", "BaseStore")))

\* test/testLibrary1/.twistrc (LibraryLoaderTest.js, lines 27-34)
testLibrary1Config ==
    Document(NoSection,
             ArrayOf(<<StoreDecorator>>),
             ArrayOf(<<Pair("my:component", Declaration("@twist/core", "MyComponent", NoInherits))>>),
             NoSection, NoSection, NoContext)

\* test/testLibrary2/.twistrc.js (TwistConfiguration.js, lines 275-294): a function of the options
testLibrary2Config(options) ==
    Document(NoSection,
             ArrayOf(<<StoreDecorator>>),
             ArrayOf(<<Pair(Get(options, "componentName"),
                            Declaration("@twist/core", "MyComponent", NoInherits))>>),
             NoSection, NoSection, NoContext)

\* test/testLibrary3/.twistrc (TwistConfigurationTest, lines 108-139)
testLibrary3Config ==
    Document(NoSection,
             ArrayOf(<<Bare("Decorator1"),
                       Pair("Decorator3", Declaration("@twist/test", "Dec", NoInherits)),
                       Hole,
                       Pair("Decorator4", Declaration(Undefined, Undefined, InheritsName("BaseClass"))),
                       Pair("Decorator5", Declaration(Undefined, Undefined,
                                                      InheritsFrom("@twist/test", "BaseClass")))>>),
             NoSection,
             ArrayOf(<<Bare("plugin1"), Pair("plugin2", "{option:true}")>>),
             ObjectOf(<<Prop("polyfill", "42"), Prop("regenerator", "false")>>),
             [given |-> TRUE,
              blocks |-> <<<<"webpack",
                   Document(NoSection, NoSection, NoSection,
                            ArrayOf(<<Pair("plugin1", "{again:true}")>>),
                            ObjectOf(<<Prop("polyfill", "1024"), Prop("regenerator", "hello")>>),
                            NoContext)>>>>])

\* test/testLibrary4/.twistrc.js (lines 3-15): an object
testLibrary4Config ==
    Document(ArrayOf(<<Bare(testLibrary1),
                       Pair(testLibrary2, <<<<"componentName", "another:component">>>>),
                       Bare(testLibrary3)>>),
             NoSection,
             ArrayOf(<<Pair("my:component", Declaration("my-module", "OverriddenComponent", NoInherits))>>),
             NoSection, NoSection, NoContext)

\* LibraryA 1.0 -> LibraryB 2.0 -> LibraryC 3.0 -> LibraryB 4.0 (LibraryLoaderTest.js, lines 117-135)
LibraryAConfig ==
    Document(ArrayOf(<<Bare(<<"LibraryB">>)>>), NoSection, NoSection, NoSection, NoSection, NoContext)

LibraryBConfig ==
    Document(ArrayOf(<<Bare(<<"LibraryC">>)>>),
             ArrayOf(<<Bare("Task")>>), NoSection, NoSection, NoSection, NoContext)

LibraryCConfig ==
    Document(ArrayOf(<<Bare(LibraryB4)>>), NoSection, NoSection, NoSection, NoSection, NoContext)

LibraryB4Config ==
    Document(NoSection, ArrayOf(<<Bare("Task4")>>), NoSection,
             ArrayOf(<<Bare("plugin4")>>), ObjectOf(<<Prop("polyfill", "4.0")>>), NoContext)

\* Two libraries that declare each other; both declare component "x" and an
\* option, and pong declares a decorator "x" as well.
pingConfig ==
    Document(ObjectOf(<<Prop(<<"pong">>, EmptyObject)>>),
             NoSection,
             ObjectOf(<<Prop("x", Declaration("ping-module", Undefined, NoInherits))>>),
             NoSection,
             ObjectOf(<<Prop("jsxSourceLines", "ping")>>),
             NoContext)

pongConfig ==
    Document(ArrayOf(<<Bare(<<"ping">>)>>),
             ArrayOf(<<Bare("x")>>),
             ArrayOf(<<Only("x")>>),
             NoSection,
             ArrayOf(<<Pair("jsxSourceLines", "pong"), Pair("regenerator", "false")>>),
             NoContext)

\* The library "@x/y" of the context-scoping example: it declares testLibrary1
\* and overrides its decorator; its "webpack" block overrides the base option
\* and a component and brings its own library and plugin; no Merger of this
\* model selects its "electron" block.
scopedConfig ==
    Document(ArrayOf(<<Bare(testLibrary1)>>),
             ArrayOf(<<Bare("Store")>>),
             ArrayOf(<<Pair("Panel", Declaration("@x/panels", Undefined, NoInherits))>>),
             NoSection,
             ObjectOf(<<Prop("regenerator", "false")>>),
             [given |-> TRUE,
              blocks |-> <<
                <<"webpack",
                  Document(ArrayOf(<<Bare(<<"pong">>)>>), NoSection,
                           ArrayOf(<<Bare("Panel")>>),
                           ArrayOf(<<Bare("webpack-plugin")>>),
                           ObjectOf(<<Prop("regenerator", "true")>>),
                           NoContext)>>,
                <<"electron",
                  Document(ArrayOf(<<Bare(<<"not-a-library">>)>>),
                           ArrayOf(<<Bare("Electron")>>), NoSection,
                           ArrayOf(<<Bare("electron-plugin")>>),
                           ObjectOf(<<Prop("regenerator", "electron"), Prop("doesNotExist", "1")>>),
                           NoContext)>> >>])

\* A document that sets an option the configuration does not define; it also
\* declares the library without a configuration file and registers
\* testLibrary3's plugin2 again, with other options.
badOptionConfig ==
    Document(ArrayOf(<<Bare(cwd)>>), ArrayOf(<<Bare("Early")>>), NoSection,
             ArrayOf(<<Pair("plugin2", "{option:false}"), Bare("plugin5")>>),
             ObjectOf(<<Prop("polyfill", "7"), Prop("doesNotExist", "1"), Prop("regenerator", "late")>>),
             NoContext)

\* A library that declares testLibrary1, then LibraryB 4.0, then a third copy
\* of LibraryB, 5.0, whose .twistrc is not JSON; its own decorator comes after
\* its libraries.
mixedConfig ==
    Document(ArrayOf(<<Bare(testLibrary1), Bare(LibraryB4), Bare(LibraryB5)>>),
             ArrayOf(<<Bare("Late")>>), NoSection, NoSection, NoSection, NoContext)

\* JSON.parse(stripJsonComments(readFileSync(<path>/.twistrc))): the parsed
\* document, or not valid JSON.
Parsed(doc)   == [valid |-> TRUE, config |-> doc]
InvalidJSON   == [valid |-> FALSE, config |-> EmptyDocument]

StaticFile(libraryPath) ==
    CASE libraryPath = testLibrary1 -> Parsed(testLibrary1Config)
      [] libraryPath = testLibrary3 -> Parsed(testLibrary3Config)
      [] libraryPath = LibraryA     -> Parsed(LibraryAConfig)
      [] libraryPath = LibraryB     -> Parsed(LibraryBConfig)
      [] libraryPath = LibraryC     -> Parsed(LibraryCConfig)
      [] libraryPath = LibraryB4    -> Parsed(LibraryB4Config)
      [] libraryPath = pong         -> Parsed(pongConfig)
      [] libraryPath = scoped       -> Parsed(scopedConfig)
      [] libraryPath = badOption    -> Parsed(badOptionConfig)
      [] libraryPath = mixed        -> Parsed(mixedConfig)
      [] OTHER                      -> InvalidJSON

\* require(<path>/.twistrc.js) followed by `typeof library === 'function' ?
\* library(options) : library`.
DynamicFile(libraryPath, options) ==
    CASE libraryPath = testLibrary2 -> testLibrary2Config(options)
      [] libraryPath = testLibrary4 -> testLibrary4Config
      [] OTHER                      -> pingConfig

-----------------------------------------------------------------------------
(* LibraryInfo and LibraryLoader (src/README.md)                           *)

\* A LibraryInfo is identified by its place in libraryInfos; the '(root)'
\* LibraryInfo the loader creates for itself is not in the list and has id 0.
RootId == 0
NoLibrary == -1
NoPath == <<>>

RootLibrary ==
    [path |-> NoPath, options |-> EmptyObject, parentLibrary |-> NoLibrary,
     name |-> "(root)", version |-> ""]

\* Mutant of LibraryInfo: the record does not keep its parent.
LibraryInfoWithoutParent(libraryPath, options, parentLibrary) ==
    [path |-> libraryPath, options |-> options, parentLibrary |-> NoLibrary,
     name |-> PackageJson(libraryPath).name, version |-> PackageJson(libraryPath).version]

\* new LibraryInfo(libraryPath, options, parentLibrary), for a libraryPath
\* whose package.json parses.
LibraryInfo(libraryPath, options, parentLibrary) ==
    [path |-> libraryPath, options |-> options, parentLibrary |-> parentLibrary,
     name |-> PackageJson(libraryPath).name, version |-> PackageJson(libraryPath).version]

Library(id) == IF id = RootId THEN RootLibrary ELSE libraryInfos[id]

\* JSON.stringify of an options bag: the members in insertion order, without
\* those whose value is undefined.
JSONStringify(value) == SelectSeq(value, LAMBDA member : member[2] # Undefined)

\* LibraryLoader.getRootDir
GetRootDir(libraryName) ==
    LET packageJSONPath == RequireResolve(Join(libraryName, "package.json"))
    IN  IF packageJSONPath = Unresolved THEN Unresolved
        ELSE Normalize(Dirname(packageJSONPath))

\* Mutant of AlreadyLoaded: a library counts as loaded once its load has returned.
AlreadyLoadedAndReturned(infos, libraryPath, options) ==
    \E i \in 1..Len(infos) :
        /\ infos[i].path = libraryPath
        /\ JSONStringify(infos[i].options) = JSONStringify(options)
        /\ \A f \in 1..Len(stack) : ~(stack[f].kind = "load" /\ stack[f].libraryInfo = i)

\* Mutant of AlreadyLoaded: the record of a load that failed does not count.
AlreadyLoadedUnlessFailed(infos, libraryPath, options) ==
    \E i \in 1..Len(infos) :
        /\ infos[i].path = libraryPath
        /\ JSONStringify(infos[i].options) = JSONStringify(options)
        /\ ~\E j \in 1..(i - 1) : /\ infos[j].name = infos[i].name
                                  /\ infos[j].version # infos[i].version
        /\ ~( ExistsSync(Join(libraryPath, ".twistrc")) /\ ~StaticFile(libraryPath).valid )

\* this.libraryInfos.find(lib => lib.path === libraryPath && JSON.stringify(lib.options) === JSON.stringify(options))
AlreadyLoaded(infos, libraryPath, options) ==
    \E i \in 1..Len(infos) :
        /\ infos[i].path = libraryPath
        /\ JSONStringify(infos[i].options) = JSONStringify(options)

\* this.libraryInfos.find(lib => lib.name === libraryInfo.name && lib.version !== libraryInfo.version):
\* the id of the first such entry, 0 when there is none.
\* Mutant of IsConflict: libraries are told apart by path instead of name.
IsConflictByPath(lib, libraryInfo) ==
    lib.path = libraryInfo.path /\ lib.version # libraryInfo.version

IsConflict(lib, libraryInfo) == lib.name = libraryInfo.name /\ lib.version # libraryInfo.version

\* Mutant of FindConflict: only the entry loaded just before is compared.
FindConflictWithPrevious(infos, libraryInfo) ==
    IF Len(infos) >= 2 /\ IsConflict(infos[Len(infos) - 1], libraryInfo)
    THEN Len(infos) - 1 ELSE 0

FindConflict(infos, libraryInfo) ==
    LET found == { i \in 1..Len(infos) : IsConflict(infos[i], libraryInfo) }
    IN  IF found = {} THEN 0 ELSE CHOOSE i \in found : \A j \in found : i <= j

\* Mutant of LoadConfigFile: a library without a configuration file has the
\* empty configuration.
LoadConfigFileOrEmpty(libraryPath, options) ==
    IF ExistsSync(Join(libraryPath, ".twistrc"))
    THEN [found |-> TRUE, valid |-> StaticFile(libraryPath).valid,
          config |-> StaticFile(libraryPath).config]
    ELSE IF ExistsSync(Join(libraryPath, ".twistrc.js"))
         THEN [found |-> TRUE, valid |-> TRUE, config |-> DynamicFile(libraryPath, options)]
         ELSE [found |-> TRUE, valid |-> TRUE, config |-> StaticFile(libraryPath).config]

\* Mutant of LoadConfigFile: .twistrc.js is tried before .twistrc.
LoadConfigFileDynamicFirst(libraryPath, options) ==
    IF ExistsSync(Join(libraryPath, ".twistrc.js"))
    THEN [found |-> TRUE, valid |-> TRUE, config |-> DynamicFile(libraryPath, options)]
    ELSE IF ExistsSync(Join(libraryPath, ".twistrc"))
         THEN [found |-> TRUE, valid |-> StaticFile(libraryPath).valid,
               config |-> StaticFile(libraryPath).config]
         ELSE [found |-> FALSE, valid |-> TRUE, config |-> EmptyDocument]

\* LibraryLoader.loadConfigFile, for the library at libraryPath.
NotFound == [found |-> FALSE, valid |-> TRUE, config |-> EmptyDocument]

LoadConfigFile(libraryPath, options) ==
    IF ExistsSync(Join(libraryPath, ".twistrc"))
    THEN [found |-> TRUE, valid |-> StaticFile(libraryPath).valid,
          config |-> StaticFile(libraryPath).config]
    ELSE IF ExistsSync(Join(libraryPath, ".twistrc.js"))
         THEN [found |-> TRUE, valid |-> TRUE, config |-> DynamicFile(libraryPath, options)]
         ELSE NotFound

-----------------------------------------------------------------------------
(* TwistConfiguration (src/src/TwistConfiguration.js)                      *)

DEFAULT_OPTIONS ==
    [includeBabelRuntime |-> "false", jsxSourceLines |-> "false", polyfill |-> "true",
     regenerator |-> "false", targets |-> "{node:current}", transformImports |-> "true",
     useBabelModuleResolver |-> "true"]

\* Object.assign({}, DEFAULT_OPTIONS, options)
AssignOptions(defaults, options) ==
    [k \in (DOMAIN defaults) \cup Keys(options) |->
        IF HasKey(options, k) THEN Get(options, k) ELSE defaults[k]]

\* The values `x || y` replaces: false, 0, '', null, undefined.
Falsy(v) == v \in {"false", "0", "", Null, Undefined}

\* Mutant of Put: the object is replaced by one that has this property only.
PutAlone(object, name, value) == [k \in {name} |-> value]

\* object[name] = value
Put(object, name, value) ==
    [k \in (DOMAIN object) \cup {name} |-> IF k = name THEN value ELSE object[k]]

\* A property key: undefined becomes the string 'undefined'.
PropertyKey(name) == IF name = Undefined THEN "undefined" ELSE name

\* _forEachConfig(config, callback): the calls callback(name, value) it makes,
\* in order.  `empty` is the {} the array form passes when an entry has no
\* (or a falsy) value; `scalar` says that the section's values are scalars,
\* which may be falsy (a declaration or an options bag is an object: truthy).
Callback(name, value) == [name |-> name, value |-> value]

RECURSIVE ForEachEntry(_, _, _)
ForEachEntry(entries, empty, scalar) ==
    IF entries = <<>> THEN <<>>
    ELSE LET entry == Head(entries)
             rest == ForEachEntry(Tail(entries), empty, scalar)
         IN  CASE entry.kind = "hole"  -> rest
               [] entry.kind = "array" ->
                    <<Callback(entry.name,
                               IF entry.given /\ ~(scalar /\ Falsy(entry.value))
                               THEN entry.value ELSE empty)>> \o rest
               [] entry.kind = "bare"  -> <<Callback(entry.name, empty)>> \o rest
               [] OTHER                -> <<Callback(entry.name, entry.value)>> \o rest

ForEachConfig(config, empty, scalar) ==
    IF config.form = "undefined" THEN <<>>
    ELSE ForEachEntry(config.entries, empty, scalar)

\* Mutant of DecoratorConfig: inherits.module is not defaulted.
DecoratorConfigInheritsAsDeclared(name, config, libraryName) ==
    [module |-> IF Falsy(config.module) THEN libraryName ELSE config.module,
     export |-> IF Falsy(config.export) THEN name ELSE config.export,
     inherits |-> IF config.inherits.kind = "string"
                  THEN InheritsFrom(Undefined, config.inherits.export)
                  ELSE config.inherits]

\* The decorator callback of mergeConfig (lines 128-136): the declaration
\* handed to addDecorator.
DecoratorConfig(name, config, libraryName) ==
    LET inherits ==
            IF config.inherits.kind = "undefined" THEN config.inherits
            ELSE [kind |-> "object",
                  module |-> IF config.inherits.kind = "string" \/ Falsy(config.inherits.module)
                             THEN libraryName ELSE config.inherits.module,
                  export |-> config.inherits.export]
    IN  [module |-> IF Falsy(config.module) THEN libraryName ELSE config.module,
         export |-> IF Falsy(config.export) THEN name ELSE config.export,
         inherits |-> inherits]

\* The component callback of mergeConfig (lines 139-143).
ComponentConfig(name, config, libraryName) ==
    [module |-> IF Falsy(config.module) THEN libraryName ELSE config.module,
     export |-> IF Falsy(config.export) THEN name ELSE config.export,
     inherits |-> config.inherits]

\* Mutant of AddBabelPlugin: a plugin registered again takes the new options.
AddBabelPluginLatestOptions(plugins, plugin, options) ==
    IF \E i \in 1..Len(plugins) : plugins[i].plugin = plugin
    THEN [i \in 1..Len(plugins) |->
            IF plugins[i].plugin = plugin THEN [plugin |-> plugin, options |-> options]
            ELSE plugins[i]]
    ELSE Append(plugins, [plugin |-> plugin, options |-> options])

\* addBabelPlugin(plugin, options): the plugin list afterwards.
AddBabelPlugin(plugins, plugin, options) ==
    IF \E i \in 1..Len(plugins) : plugins[i].plugin = plugin
    THEN plugins
    ELSE Append(plugins, [plugin |-> plugin, options |-> options])

\* this._options.hasOwnProperty(name)
HasOption(options, name) == name \in DOMAIN options

\* Mutant of ContextConfig: the first block is merged whatever its name.
ContextConfigFirstBlock(ctx, contextName) ==
    IF ctx.blocks # <<>> THEN ctx.blocks[1][2] ELSE EmptyDocument

\* config.context[this.context]; an absent block is undefined, for which
\* mergeConfig's default parameter gives {}.
ContextConfig(ctx, contextName) ==
    IF \E i \in 1..Len(ctx.blocks) : ctx.blocks[i][1] = contextName
    THEN ctx.blocks[CHOOSE i \in 1..Len(ctx.blocks) : ctx.blocks[i][1] = contextName][2]
    ELSE EmptyDocument

\* The body of mergeConfig(config) (lines 122-156) as the sequence of calls it
\* makes: addLibrary for the libraries, then the decorator and component
\* callbacks, addBabelPlugin, setOption, and last the nested mergeConfig.
Tagged(op, callbacks) ==
    [i \in 1..Len(callbacks) |-> [op |-> op, name |-> callbacks[i].name, value |-> callbacks[i].value]]

\* Mutant of MergeOps: the sub-libraries are added after the document's own
\* declarations.
MergeOpsLibrariesLast(config) ==
    Tagged("addDecorator", ForEachConfig(config.decorators, EmptyDeclaration, FALSE))
    \o Tagged("addComponent", ForEachConfig(config.components, EmptyDeclaration, FALSE))
    \o Tagged("addBabelPlugin", ForEachConfig(config.babelPlugins, "{}", TRUE))
    \o Tagged("setOption", ForEachConfig(config.options, "{}", TRUE))
    \o Tagged("addLibrary", ForEachConfig(config.libraries, EmptyObject, FALSE))
    \o (IF config.context.given
        THEN <<[op |-> "mergeConfig", name |-> Undefined, value |-> Undefined]>>
        ELSE <<>>)

MergeOps(config) ==
    Tagged("addLibrary", ForEachConfig(config.libraries, EmptyObject, FALSE))
    \o Tagged("addDecorator", ForEachConfig(config.decorators, EmptyDeclaration, FALSE))
    \o Tagged("addComponent", ForEachConfig(config.components, EmptyDeclaration, FALSE))
    \o Tagged("addBabelPlugin", ForEachConfig(config.babelPlugins, "{}", TRUE))
    \o Tagged("setOption", ForEachConfig(config.options, "{}", TRUE))
    \o (IF config.context.given
        THEN <<[op |-> "mergeConfig", name |-> Undefined, value |-> Undefined]>>
        ELSE <<>>)

-----------------------------------------------------------------------------
(* The getters libraryLocations (lines 77-83) and twistOptions (lines      *)
(* 254-264); both compute their result from the fields on every read.      *)

\* Mutant of ObjectAssign: a property the target has is not overwritten.
ObjectAssignKeepTarget(target, source) ==
    [k \in (DOMAIN target) \cup (DOMAIN source) |->
        IF k \in DOMAIN target THEN target[k] ELSE source[k]]

\* Object.assign({}, target, source)
ObjectAssign(target, source) ==
    [k \in (DOMAIN target) \cup (DOMAIN source) |->
        IF k \in DOMAIN source THEN source[k] ELSE target[k]]

\* Mutant of Locations: a name keeps the path it was first loaded from.
RECURSIVE LocationsFirstLoaded(_)
LocationsFirstLoaded(infos) ==
    IF infos = <<>> THEN [n \in {} |-> NoPath]
    ELSE LET library == infos[Len(infos)]
             libraries == LocationsFirstLoaded(SubSeq(infos, 1, Len(infos) - 1))
         IN  IF library.name \in DOMAIN libraries THEN libraries
             ELSE Put(libraries, library.name, library.path)

\* libraryInfos.forEach(library => { libraries[library.name] = library.path })
RECURSIVE Locations(_)
Locations(infos) ==
    IF infos = <<>> THEN [n \in {} |-> NoPath]
    ELSE LET library == infos[Len(infos)]
         IN  Put(Locations(SubSeq(infos, 1, Len(infos) - 1)), library.name, library.path)

libraryLocations == Locations(libraryInfos)

\* this._pathAliases (lines 54-56)
inheritsHelper == <<"/", "repo", "src", "third_party", "inherits">>
_pathAliases == [alias \in {"babel-runtime/helpers/inherits"} |-> inheritsHelper]

twistOptions ==
    LET aliases == ObjectAssign(libraryLocations, _pathAliases)
        autoImport == ObjectAssign(_decorators, _components)
        plugins == _babelPlugins
    IN  ObjectAssign(_options, [aliases |-> aliases, autoImport |-> autoImport, plugins |-> plugins])

-----------------------------------------------------------------------------
(* LibraryInfo.getLibraryChainStackTrace (README.md, lines 67-89).  The    *)
(* trace is the sequence of its lines (joined with newlines by the code);  *)
(* a line is `indent` spaces, then for every line but the first the prefix *)
(* "loaded by" (preceded by the corner mark), then `text`, the words of    *)
(* `${name}${version ? ' ' + version : ''}`.                               *)

Line(indent, isFirstLine, library) ==
    [indent |-> indent,
     prefix |-> IF isFirstLine THEN "" ELSE "loaded by",
     text   |-> IF Falsy(library.version) THEN <<library.name>>
                ELSE <<library.name, library.version>>]

\* Mutant of ChainLines: every line has the indentation of the first.
RECURSIVE ChainLinesFlat(_, _, _)
ChainLinesFlat(parent, indent, isFirstLine) ==
    IF parent = NoLibrary THEN <<>>
    ELSE <<Line(indent, isFirstLine, Library(parent))>>
         \o ChainLinesFlat(Library(parent).parentLibrary, indent, FALSE)

\* The while loop: one line per record from `parent` up the parentLibrary
\* chain, until there is no parent.
RECURSIVE ChainLines(_, _, _)
ChainLines(parent, indent, isFirstLine) ==
    IF parent = NoLibrary THEN <<>>
    ELSE <<Line(indent, isFirstLine, Library(parent))>>
         \o ChainLines(Library(parent).parentLibrary, indent + 2, FALSE)

getLibraryChainStackTrace(id) == ChainLines(id, 4, TRUE)

-----------------------------------------------------------------------------
(* The call stack.  A "load" frame is an activation of load() that has     *)
(* called mergeConfig and will restore currentLibrary when it returns      *)
(* (line 166); a "mergeConfig" frame is an activation of mergeConfig at    *)
(* call number i of MergeOps(config).                                      *)

LoadFrame(id) == [kind |-> "load", libraryInfo |-> id, config |-> EmptyDocument, i |-> 0]
MergeFrame(config) == [kind |-> "mergeConfig", libraryInfo |-> 0, config |-> config, i |-> 1]

Top == Head(stack)
InMerge == stack # <<>> /\ Top.kind = "mergeConfig" /\ Top.i <= Len(MergeOps(Top.config))
Op == MergeOps(Top.config)[Top.i]

\* The stack once the current callback of the top mergeConfig frame has returned.
Advanced == <<[Top EXCEPT !.i = @ + 1]>> \o Tail(stack)

Called(op, library, options, name, value) ==
    [op |-> op, library |-> library, options |-> options, name |-> name, value |-> value]

\* The message of the error thrown at lines 148-154: the name and version of
\* this.currentLibrary and of conflictLib, then the trace of this.currentLibrary
\* and the trace of conflictLib.
NoMessage == [loading |-> <<>>, loaded |-> <<>>, traces |-> <<>>]

VersionConflictMessage(current, conflictLib) ==
    [loading |-> <<Library(current).name, Library(current).version>>,
     loaded  |-> <<Library(conflictLib).name, Library(conflictLib).version>>,
     traces  |-> <<getLibraryChainStackTrace(current), getLibraryChainStackTrace(conflictLib)>>]

\* The message of `error`, thrown once the registry and currentLibrary have
\* their new values.
MessageOf(error) ==
    IF error = "VersionConflictError"
    THEN VersionConflictMessage(currentLibrary, FindConflict(libraryInfos, Library(currentLibrary)))
    ELSE NoMessage

\* Mutant of Raise: the error ends the entry being merged only, and the
\* enclosing mergeConfig goes on with its next entry.
RaiseInEntry(error) ==
    /\ err' = error
    /\ message' = IF error = "VersionConflictError" THEN MessageOf(error)' ELSE NoMessage
    /\ stack' = IF stack = <<>> THEN <<>> ELSE Advanced
    /\ pc' = IF pc = "ready" THEN "ready"
             ELSE IF stack = <<>> THEN "dead" ELSE "constructing"

\* A throw: nothing catches it, the whole stack is unwound.  An error thrown
\* out of the constructor leaves its caller without the object.
Raise(error) ==
    /\ err' = error
    /\ message' = IF error = "VersionConflictError" THEN MessageOf(error)' ELSE NoMessage
    /\ stack' = <<>>
    /\ pc' = IF pc = "ready" THEN "ready" ELSE "dead"

\* Control goes on with the stack `frames`; with none left, the top-level
\* call (or the constructor) has returned.
Continue(frames) ==
    /\ err' = "none"
    /\ message' = NoMessage
    /\ stack' = frames
    /\ pc' = IF frames = <<>> THEN "ready"
             ELSE IF pc = "ready" THEN "ready" ELSE "constructing"

\* Mutant of Load: the configuration document is located and parsed before
\* the registry is searched for another version.
LoadLocatesDocumentFirst(libraryName, options, rest) ==
    LET libraryPath == GetRootDir(libraryName)
    IN
    /\ call' = Called("load", libraryName, options, Undefined, Undefined)
    /\ IF libraryPath = Unresolved
       THEN /\ Raise("ResolutionError")
            /\ UNCHANGED <<libraryInfos, currentLibrary, mergeCalls, warnings>>
       ELSE IF AlreadyLoaded(libraryInfos, libraryPath, options)
       THEN /\ Continue(rest)
            /\ UNCHANGED <<libraryInfos, currentLibrary, mergeCalls, warnings>>
       ELSE IF ~PackageJson(libraryPath).valid
       THEN /\ Raise("ManifestParseError")
            /\ UNCHANGED <<libraryInfos, currentLibrary, mergeCalls, warnings>>
       ELSE
         LET libraryInfo == LibraryInfo(libraryPath, options, currentLibrary)
             infos == Append(libraryInfos, libraryInfo)
             id == Len(infos)
             conflictLib == FindConflict(infos, libraryInfo)
             libraryConfig == LoadConfigFile(libraryPath, options)
         IN
         /\ libraryInfos' = infos
         /\ IF ~libraryConfig.valid
            THEN /\ currentLibrary' = id
                 /\ Raise("ConfigParseError")
                 /\ UNCHANGED <<mergeCalls, warnings>>
            ELSE IF conflictLib # 0
            THEN /\ currentLibrary' = id
                 /\ Raise("VersionConflictError")
                 /\ UNCHANGED <<mergeCalls, warnings>>
            ELSE IF libraryConfig.found
            THEN /\ currentLibrary' = id
                 /\ mergeCalls' = Append(mergeCalls, [library |-> id, config |-> libraryConfig.config])
                 /\ Continue(<<MergeFrame(libraryConfig.config), LoadFrame(id)>> \o rest)
                 /\ UNCHANGED warnings
            ELSE /\ warnings' = Append(warnings, libraryName)
                 /\ currentLibrary' = libraryInfo.parentLibrary
                 /\ Continue(rest)
                 /\ UNCHANGED mergeCalls

\* LibraryLoader.load(libraryName, options) (README.md, lines 133-167), up to
\* its call of mergeConfig; `rest` is the stack of the caller.
Load(libraryName, options, rest) ==
    LET libraryPath == GetRootDir(libraryName)
    IN
    /\ call' = Called("load", libraryName, options, Undefined, Undefined)
    /\ IF libraryPath = Unresolved
       THEN /\ Raise("ResolutionError")
            /\ UNCHANGED <<libraryInfos, currentLibrary, mergeCalls, warnings>>
       ELSE IF AlreadyLoaded(libraryInfos, libraryPath, options)
       THEN /\ Continue(rest)
            /\ UNCHANGED <<libraryInfos, currentLibrary, mergeCalls, warnings>>
       ELSE IF ~PackageJson(libraryPath).valid
       THEN /\ Raise("ManifestParseError")
            /\ UNCHANGED <<libraryInfos, currentLibrary, mergeCalls, warnings>>
       ELSE
         LET libraryInfo == LibraryInfo(libraryPath, options, currentLibrary)
             infos == Append(libraryInfos, libraryInfo)
             id == Len(infos)
             conflictLib == FindConflict(infos, libraryInfo)
             libraryConfig == LoadConfigFile(libraryPath, options)
         IN
         /\ libraryInfos' = infos
         /\ IF conflictLib # 0
            THEN /\ currentLibrary' = id
                 /\ Raise("VersionConflictError")
                 /\ UNCHANGED <<mergeCalls, warnings>>
            ELSE IF ~libraryConfig.valid
            THEN /\ currentLibrary' = id
                 /\ Raise("ConfigParseError")
                 /\ UNCHANGED <<mergeCalls, warnings>>
            ELSE IF libraryConfig.found
            THEN /\ currentLibrary' = id
                 /\ mergeCalls' = Append(mergeCalls, [library |-> id, config |-> libraryConfig.config])
                 /\ Continue(<<MergeFrame(libraryConfig.config), LoadFrame(id)>> \o rest)
                 /\ UNCHANGED warnings
            ELSE /\ warnings' = Append(warnings, libraryName)
                 /\ currentLibrary' = libraryInfo.parentLibrary
                 /\ Continue(rest)
                 /\ UNCHANGED mergeCalls

-----------------------------------------------------------------------------
(* Initial state: the constructor has run up to line 58.                   *)

ContextNames == { Undefined, "webpack" }

ConstructorOptions ==
    { <<<<"root", Null>>>>,
      EmptyObject,
      <<<<"root", "/test/testLibrary3">>, <<"polyfill", "false">>>>,
      <<<<"root", Null>>, <<"includeBabelRuntime", "true">>, <<"verbose", "true">>>> }

\* The library reference a `root` string names.
LibraryName(root) ==
    IF root = "/test/testLibrary3" THEN testLibrary3 ELSE cwd

Init ==
    /\ ctorOptions \in ConstructorOptions
    /\ _options = AssignOptions(DEFAULT_OPTIONS, ctorOptions)
    /\ _components = [n \in {} |-> EmptyDeclaration]
    /\ _decorators = [n \in {} |-> EmptyDeclaration]
    /\ _babelPlugins = <<>>
    /\ libraryInfos = <<>>
    /\ currentLibrary = RootId
    /\ stack = <<>>
    /\ pc = "constructor"
    /\ err = "none"
    /\ message = NoMessage
    /\ \E contextName \in ContextNames :
          /\ context = IF Falsy(contextName) THEN "node" ELSE contextName
          /\ call = Called("constructor", NoPath, ctorOptions, contextName, Undefined)
    /\ mergeCalls = <<>>
    /\ warnings = <<>>
    /\ calls = 0

configurationVars == <<context, _options, _components, _decorators, _babelPlugins>>

\* Mutant of LoadsRoot: only an omitted root suppresses the load.
LoadsRootUnlessOmitted(options) == Get(options, "root") # Undefined

\* options.root !== null (line 59)
LoadsRoot(options) == Get(options, "root") # Null

\* Lines 59-61 of the constructor.
Construct ==
    /\ pc = "constructor"
    /\ IF ~LoadsRoot(ctorOptions)
       THEN /\ pc' = "ready"
            /\ UNCHANGED <<libraryInfos, currentLibrary, stack, err, message, call, mergeCalls,
                           warnings>>
       ELSE Load(IF Falsy(Get(ctorOptions, "root")) THEN cwd
                 ELSE LibraryName(Get(ctorOptions, "root")),
                 EmptyObject, <<>>)
    /\ UNCHANGED <<configurationVars, ctorOptions, calls>>

-----------------------------------------------------------------------------
(* Calls made by the owner of the constructed object.                      *)

Idle == pc = "ready" /\ stack = <<>>

c1 == <<"componentName", "c1">>
flag == <<"flag", "1">>

\* addLibrary(library, options): the arguments the owner passes.
TopLevelLoads ==
    { <<testLibrary2, <<c1, flag>>>>,
      <<testLibrary2, <<flag, c1>>>>,
      <<testLibrary2Dotted, <<c1, flag>>>>,
      <<testLibrary2, <<<<"componentName", Undefined>>>>>>,
      <<testLibrary2, EmptyObject>>,
      <<testLibrary4, EmptyObject>>,
      <<<<"LibraryA">>, EmptyObject>>,
      <<<<"LibraryB">>, EmptyObject>>,
      <<LibraryB4, EmptyObject>>,
      <<<<"ping">>, EmptyObject>>,
      <<pong, EmptyObject>>,
      <<scoped, EmptyObject>>,
      <<invalidLibrary, EmptyObject>>,
      <<<<"not-a-library">>, EmptyObject>>,
      <<<<"bad-option">>, EmptyObject>>,
      <<badManifest, EmptyObject>>,
      <<mixed, EmptyObject>>,
      <<cwd, EmptyObject>> }

\* addLibrary(library, options) (lines 166-169)
AddLibrary ==
    /\ Idle
    /\ calls < MaxCalls
    /\ calls' = calls + 1
    /\ \E args \in TopLevelLoads : Load(args[1], args[2], <<>>)
    /\ UNCHANGED <<configurationVars, ctorOptions>>

\* setOption(name, value) (lines 199-205), called by the owner.
TopLevelOptions == { <<"polyfill", "owner">>, <<"doesNotExist", "1">>, <<"root", "owner">>,
                     <<"verbose", "owner">> }

SetOption ==
    /\ Idle
    /\ calls < MaxCalls
    /\ calls' = calls + 1
    /\ \E args \in TopLevelOptions :
          /\ call' = Called("setOption", NoPath, EmptyObject, args[1], args[2])
          /\ IF ~HasOption(_options, args[1])
             THEN /\ Raise("UnknownOptionError")
                  /\ UNCHANGED _options
             ELSE /\ _options' = Put(_options, args[1], args[2])
                  /\ Continue(<<>>)
    /\ UNCHANGED <<context, _components, _decorators, _babelPlugins, libraryInfos,
                   currentLibrary, ctorOptions, mergeCalls, warnings>>

-----------------------------------------------------------------------------
(* The steps of mergeConfig.                                               *)

loaderVars == <<libraryInfos, currentLibrary, mergeCalls, warnings>>

\* this._forEachConfig(config.libraries, this.addLibrary.bind(this)) (line 125)
MergeLibrary ==
    /\ InMerge
    /\ Op.op = "addLibrary"
    /\ Load(Op.name, Op.value, Advanced)
    /\ UNCHANGED <<configurationVars, ctorOptions, calls>>

\* One decorator (lines 128-136) and addDecorator (lines 232-235)
MergeDecorator ==
    /\ InMerge
    /\ Op.op = "addDecorator"
    /\ _decorators' = Put(_decorators, PropertyKey(Op.name),
                          DecoratorConfig(Op.name, Op.value, Library(currentLibrary).name))
    /\ call' = Called("addDecorator", NoPath, EmptyObject, Op.name, Undefined)
    /\ Continue(Advanced)
    /\ UNCHANGED <<context, _options, _components, _babelPlugins, loaderVars, ctorOptions, calls>>

\* One component (lines 139-143) and addComponent (lines 222-225)
MergeComponent ==
    /\ InMerge
    /\ Op.op = "addComponent"
    /\ _components' = Put(_components, PropertyKey(Op.name),
                          ComponentConfig(Op.name, Op.value, Library(currentLibrary).name))
    /\ call' = Called("addComponent", NoPath, EmptyObject, Op.name, Undefined)
    /\ Continue(Advanced)
    /\ UNCHANGED <<context, _options, _decorators, _babelPlugins, loaderVars, ctorOptions, calls>>

\* this._forEachConfig(config.babelPlugins, this.addBabelPlugin.bind(this)) (line 146)
MergeBabelPlugin ==
    /\ InMerge
    /\ Op.op = "addBabelPlugin"
    /\ _babelPlugins' = AddBabelPlugin(_babelPlugins, Op.name, Op.value)
    /\ call' = Called("addBabelPlugin", NoPath, EmptyObject, Op.name, Op.value)
    /\ Continue(Advanced)
    /\ UNCHANGED <<context, _options, _components, _decorators, loaderVars, ctorOptions, calls>>

\* this._forEachConfig(config.options, this.setOption.bind(this)) (line 149)
MergeOption ==
    /\ InMerge
    /\ Op.op = "setOption"
    /\ call' = Called("setOption", NoPath, EmptyObject, Op.name, Op.value)
    /\ IF ~HasOption(_options, Op.name)
       THEN /\ Raise("UnknownOptionError")
            /\ UNCHANGED _options
       ELSE /\ _options' = Put(_options, Op.name, Op.value)
            /\ Continue(Advanced)
    /\ UNCHANGED <<context, _components, _decorators, _babelPlugins, loaderVars, ctorOptions, calls>>

\* if (config.context) this.mergeConfig(config.context[this.context]) (lines 153-155)
MergeContext ==
    /\ InMerge
    /\ Op.op = "mergeConfig"
    /\ LET config == ContextConfig(Top.config.context, context)
       IN  /\ mergeCalls' = Append(mergeCalls, [library |-> currentLibrary, config |-> config])
           /\ Continue(<<MergeFrame(config)>> \o Advanced)
    /\ call' = Called("mergeConfig", NoPath, EmptyObject, context, Undefined)
    /\ UNCHANGED <<configurationVars, libraryInfos, currentLibrary, warnings, ctorOptions, calls>>

\* mergeConfig returns to its caller.
MergeReturn ==
    /\ stack # <<>>
    /\ Top.kind = "mergeConfig"
    /\ Top.i > Len(MergeOps(Top.config))
    /\ Continue(Tail(stack))
    /\ call' = Called("return", NoPath, EmptyObject, Undefined, Undefined)
    /\ UNCHANGED <<configurationVars, loaderVars, ctorOptions, calls>>

\* Mutant of LoadReturn: load returns without switching back to the parent.
LoadReturnKeepsCurrent ==
    /\ stack # <<>>
    /\ Top.kind = "load"
    /\ currentLibrary' = currentLibrary
    /\ Continue(Tail(stack))
    /\ call' = Called("return", NoPath, EmptyObject, Undefined, Undefined)
    /\ UNCHANGED <<configurationVars, libraryInfos, mergeCalls, warnings, ctorOptions, calls>>

\* load: `this.currentLibrary = libraryInfo.parentLibrary` (line 166) and return.
LoadReturn ==
    /\ stack # <<>>
    /\ Top.kind = "load"
    /\ currentLibrary' = libraryInfos[Top.libraryInfo].parentLibrary
    /\ Continue(Tail(stack))
    /\ call' = Called("return", NoPath, EmptyObject, Undefined, Undefined)
    /\ UNCHANGED <<configurationVars, libraryInfos, mergeCalls, warnings, ctorOptions, calls>>

Next ==
    \/ Construct
    \/ AddLibrary
    \/ SetOption
    \/ MergeLibrary
    \/ MergeDecorator
    \/ MergeComponent
    \/ MergeBabelPlugin
    \/ MergeOption
    \/ MergeContext
    \/ MergeReturn
    \/ LoadReturn

Spec == Init /\ [][Next]_vars

-----------------------------------------------------------------------------
(* Vocabulary of the properties.                                           *)

Ids == 1..Len(libraryInfos)

\* The step just taken was a call of load(); its arguments are in call'.
LoadCalled == call'.op = "load"

\* The document load() obtains for a registry entry.
DocumentOf(lib) == LoadConfigFile(lib.path, lib.options).config

\* A load() activation is about to return normally: its document is merged.
LoadCompleting == stack # <<>> /\ Top.kind = "load"

\* The seven options of the schema.
SchemaOptions == { "includeBabelRuntime", "jsxSourceLines", "polyfill", "regenerator",
                   "targets", "transformImports", "useBabelModuleResolver" }

\* The last element of a non-empty sequence.
Last(seq) == seq[Len(seq)]

\* The calls of kind `op` a document makes at its top level, and the names
\* they are made for.
CallsOf(config, op) == SelectSeq(MergeOps(config), LAMBDA c : c.op = op)
NamesOf(config, op) == { CallsOf(config, op)[i].name : i \in 1..Len(CallsOf(config, op)) }
LastCallFor(config, op, name) ==
    Last(SelectSeq(MergeOps(config), LAMBDA c : c.op = op /\ c.name = name))

-----------------------------------------------------------------------------
(* C1 - Idempotent reload: once the registry holds an entry for a path     *)
(* with options o, a later load that resolves to the same path with        *)
(* options structurally equal to o (same keys mapped to equal values)      *)
(* neither appends to the registry nor calls mergeConfig.                  *)
C1_IdempotentReload ==
    [][ ( /\ LoadCalled
          /\ \E i \in Ids :
                /\ libraryInfos[i].path = GetRootDir(call'.library)
                /\ StructurallyEqual(libraryInfos[i].options, call'.options) )
        => ( libraryInfos' = libraryInfos /\ mergeCalls' = mergeCalls ) ]_vars

(* C2 - Conflict detection: when the registry holds an entry with name A   *)
(* and version v1, a load of a different path (one the registry does not   *)
(* hold) whose manifest reports name A and a version v2 # v1 fails with    *)
(* VersionConflictError, and the registry afterwards is the registry       *)
(* before with the newly attempted entry appended.                         *)
C2_ConflictDetection ==
    [][ \A libraryPath \in Libraries :
          ( /\ LoadCalled
            /\ GetRootDir(call'.library) = libraryPath
            /\ PackageJson(libraryPath).valid
            /\ \A i \in Ids : libraryInfos[i].path # libraryPath
            /\ \E i \in Ids : /\ libraryInfos[i].name = PackageJson(libraryPath).name
                              /\ libraryInfos[i].version # PackageJson(libraryPath).version )
          => ( /\ err' = "VersionConflictError"
               /\ stack' = <<>>
               /\ Len(libraryInfos') = Len(libraryInfos) + 1
               /\ SubSeq(libraryInfos', 1, Len(libraryInfos)) = libraryInfos
               /\ Last(libraryInfos').path = libraryPath
               /\ Last(libraryInfos').name = PackageJson(libraryPath).name
               /\ Last(libraryInfos').version = PackageJson(libraryPath).version ) ]_vars

\* A load has just failed with VersionConflictError and the registry holds
\* both LibraryB 2.0 and, after it, the attempted LibraryB 4.0.
C2_Witness ==
    /\ err = "VersionConflictError"
    /\ call.op = "load"
    /\ Len(libraryInfos) >= 2
    /\ Last(libraryInfos).path = LibraryB4
    /\ \E i \in Ids : libraryInfos[i].path = LibraryB /\ i < Len(libraryInfos)

(* C3 - Active-record restoration: whenever no load is in progress -       *)
(* including after a failed top-level addLibrary whose error was caught -  *)
(* currentLibrary is the '(root)' sentinel.                                *)
C3_ActiveRecordRestored ==
    Idle => currentLibrary = RootId

(* C4 - Registry name/version invariant, as claimed: in every reachable    *)
(* state any two registry entries with the same name have the same         *)
(* version.                                                                *)
C4_SameNameSameVersion ==
    \A i, j \in Ids :
        libraryInfos[i].name = libraryInfos[j].name
        => libraryInfos[i].version = libraryInfos[j].version

(* C4, amended - two registry entries with the same name have the same     *)
(* version unless the later one is the record of a load that failed with   *)
(* VersionConflictError: that record is appended before the check and      *)
(* stays in the registry, but its document is never merged.                *)
C4_ConflictingEntryNeverMerged ==
    \A i, j \in Ids :
        ( /\ i < j
          /\ libraryInfos[i].name = libraryInfos[j].name
          /\ libraryInfos[i].version # libraryInfos[j].version )
        => \A m \in 1..Len(mergeCalls) : mergeCalls[m].library # j

\* The registry holds two versions of one name, and documents were merged.
C4_Witness ==
    /\ \E i, j \in Ids :
          /\ i < j
          /\ libraryInfos[i].name = libraryInfos[j].name
          /\ libraryInfos[i].version # libraryInfos[j].version
          /\ \E m \in 1..Len(mergeCalls) : mergeCalls[m].library = i
    /\ Idle

\* The block a context section holds for a context name.
HasBlock(ctx, contextName) == \E i \in 1..Len(ctx.blocks) : ctx.blocks[i][1] = contextName
BlockOf(ctx, contextName) ==
    ctx.blocks[CHOOSE i \in 1..Len(ctx.blocks) : ctx.blocks[i][1] = contextName][2]

\* The library whose load() is the innermost one in progress.
EnclosingLoad ==
    stack[CHOOSE i \in 1..Len(stack) :
            /\ stack[i].kind = "load"
            /\ \A j \in 1..(i - 1) : stack[j].kind # "load"].libraryInfo

(* C5 - Override ordering: when the load of a library whose document D     *)
(* declares libraries and also declares, at its top level, a component,    *)
(* decorator or option under key x completes without error, the            *)
(* accumulated value for x is D's own declaration, replaced wholesale      *)
(* (whatever the declared libraries recorded for x).  D here has no block  *)
(* for the Merger's context; such a block is merged after D's own          *)
(* sections (C6).                                                          *)
C5_OverrideOrdering ==
    LoadCompleting =>
        LET lib == libraryInfos[Top.libraryInfo]
            D == DocumentOf(lib)
        IN  ( CallsOf(D, "addLibrary") # <<>> /\ ~HasBlock(D.context, context) ) =>
            /\ \A x \in NamesOf(D, "addComponent") :
                  /\ PropertyKey(x) \in DOMAIN _components
                  /\ _components[PropertyKey(x)]
                       = ComponentConfig(x, LastCallFor(D, "addComponent", x).value, lib.name)
            /\ \A x \in NamesOf(D, "addDecorator") :
                  /\ PropertyKey(x) \in DOMAIN _decorators
                  /\ _decorators[PropertyKey(x)]
                       = DecoratorConfig(x, LastCallFor(D, "addDecorator", x).value, lib.name)
            /\ \A x \in NamesOf(D, "setOption") :
                  _options[x] = LastCallFor(D, "setOption", x).value

\* testLibrary4's load completes: it declares testLibrary1, whose document
\* declares 'my:component' too, and its own declaration is the recorded one.
C5_Witness ==
    /\ LoadCompleting
    /\ libraryInfos[Top.libraryInfo].path = testLibrary4
    /\ \E i \in Ids : /\ libraryInfos[i].path = testLibrary1
                      /\ "my:component" \in NamesOf(DocumentOf(libraryInfos[i]), "addComponent")
    /\ _components["my:component"] = Declaration("my-module", "OverriddenComponent", NoInherits)

(* C6 - Context scoping: the block document.context[c] is merged if and    *)
(* only if c is the Merger's context name, after the enclosing document's  *)
(* own sections: when a load completes, an option set in the matching      *)
(* block has the block's value; with no matching block the top-level       *)
(* value holds, and no other block is ever handed to mergeConfig.          *)
C6_ContextScoping ==
    /\ \A m \in 1..Len(mergeCalls) :
          LET D == DocumentOf(Library(mergeCalls[m].library))
          IN  \/ mergeCalls[m].config = D
              \/ /\ D.context.given
                 /\ mergeCalls[m].config = IF HasBlock(D.context, context)
                                           THEN BlockOf(D.context, context)
                                           ELSE EmptyDocument
    /\ LoadCompleting =>
          LET id == Top.libraryInfo
              D == DocumentOf(libraryInfos[id])
          IN  D.context.given =>
                IF HasBlock(D.context, context)
                THEN /\ \E m \in 1..Len(mergeCalls) :
                           mergeCalls[m] = [library |-> id, config |-> BlockOf(D.context, context)]
                     /\ \A x \in NamesOf(BlockOf(D.context, context), "setOption") :
                           _options[x] = LastCallFor(BlockOf(D.context, context), "setOption", x).value
                     /\ \A x \in NamesOf(BlockOf(D.context, context), "addComponent") :
                           /\ PropertyKey(x) \in DOMAIN _components
                           /\ _components[PropertyKey(x)]
                                = ComponentConfig(x, LastCallFor(BlockOf(D.context, context),
                                                                 "addComponent", x).value,
                                                  libraryInfos[id].name)
                ELSE \A x \in NamesOf(D, "setOption") :
                           _options[x] = LastCallFor(D, "setOption", x).value

\* Under context "webpack" the load of "@x/y" completes with the block's
\* regenerator, which its top level sets to "false".
C6_Witness ==
    /\ context = "webpack"
    /\ LoadCompleting
    /\ libraryInfos[Top.libraryInfo].path = scoped
    /\ LastCallFor(DocumentOf(libraryInfos[Top.libraryInfo]), "setOption", "regenerator").value = "false"
    /\ _options["regenerator"] = "true"
    /\ _components["Panel"] = Declaration("@x/y", "Panel", NoInherits)

(* C7 - Default module/export inference: a decorator or component named n  *)
(* declared in the document of library X is recorded with module = the     *)
(* declared module if present, else X's manifest name; export = the        *)
(* declared export if present, else n; a decorator's bare-name inherits b  *)
(* becomes {export: b}, and inherits.module = the declared inherits.module *)
(* if present, else X's name.  Declared values are recorded unchanged.     *)
Declared(value, default) == IF value = Undefined THEN default ELSE value

C7_DefaultInference ==
    [][ ( InMerge /\ Op.op \in {"addDecorator", "addComponent"} ) =>
        LET X == PackageJson(libraryInfos[EnclosingLoad].path).name
            n == Op.name
            d == Op.value
            recorded == IF Op.op = "addDecorator" THEN _decorators'[PropertyKey(n)]
                        ELSE _components'[PropertyKey(n)]
        IN  /\ recorded.module = Declared(d.module, X)
            /\ recorded.export = Declared(d.export, n)
            /\ Op.op = "addComponent" => recorded.inherits = d.inherits
            /\ ( Op.op = "addDecorator" /\ d.inherits.kind = "undefined" )
                  => recorded.inherits = NoInherits
            /\ ( Op.op = "addDecorator" /\ d.inherits.kind = "string" )
                  => recorded.inherits = InheritsFrom(X, d.inherits.export)
            /\ ( Op.op = "addDecorator" /\ d.inherits.kind = "object" )
                  => recorded.inherits = InheritsFrom(Declared(d.inherits.module, X),
                                                      d.inherits.export)
      ]_vars

\* The bare decorator "Store" of library "@x/y" is recorded as
\* {module: "@x/y", export: "Store"}.
C7_Witness ==
    /\ "Store" \in DOMAIN _decorators
    /\ _decorators["Store"] = Declaration("@x/y", "Store", NoInherits)
    /\ call.op = "addDecorator"

(* C8 - Closed option schema: setOption(name, v) with a name that is not   *)
(* one of the seven schema options fails with UnknownOptionError and       *)
(* changes nothing, however the Merger was constructed.                    *)
C8_ClosedOptionSchema ==
    [][ ( call'.op = "setOption" /\ call'.name \notin SchemaOptions )
        => ( /\ err' = "UnknownOptionError"
             /\ UNCHANGED <<_options, _components, _decorators, _babelPlugins, libraryInfos>> )
      ]_vars

(* C9 - Options passed to the constructor override the .twistrc options:   *)
(* once the constructor has returned, getOption(k) is the constructor's    *)
(* value for every schema option k in its options bag.                     *)
C9_ConstructorOptionsOverride ==
    ( Idle /\ calls = 0 ) =>
        \A k \in SchemaOptions \cap Keys(ctorOptions) : _options[k] = Get(ctorOptions, k)

(* C10 - Registry uniqueness: no two registry entries have both the same   *)
(* path and structurally equal options.                                    *)
C10_RegistryUnique ==
    \A i, j \in Ids :
        ( i # j /\ libraryInfos[i].path = libraryInfos[j].path )
        => ~StructurallyEqual(libraryInfos[i].options, libraryInfos[j].options)

-----------------------------------------------------------------------------
(* C11 - Plugin deduplication: the plugin list never holds two entries for *)
(* the same plugin reference; addBabelPlugin of a reference that is in the *)
(* list leaves the list as it is (the first registration keeps its options *)
(* and its position), addBabelPlugin of a new reference appends it, and no *)
(* other step changes the list.                                            *)
PluginsUnique ==
    \A i, j \in 1..Len(_babelPlugins) :
        _babelPlugins[i].plugin = _babelPlugins[j].plugin => i = j

Registered(plugin) == \E i \in 1..Len(_babelPlugins) : _babelPlugins[i].plugin = plugin

C11_PluginDeduplication ==
    /\ []PluginsUnique
    /\ [][ IF call'.op = "addBabelPlugin"
           THEN IF Registered(call'.name)
                THEN _babelPlugins' = _babelPlugins
                ELSE _babelPlugins' = Append(_babelPlugins,
                                             [plugin |-> call'.name, options |-> call'.value])
           ELSE _babelPlugins' = _babelPlugins ]_vars

\* A plugin was registered again with options other than those on the list.
C11_Witness ==
    /\ call.op = "addBabelPlugin"
    /\ \E i \in 1..Len(_babelPlugins) :
          /\ _babelPlugins[i].plugin = call.name
          /\ _babelPlugins[i].options # call.value
          /\ i < Len(_babelPlugins)

-----------------------------------------------------------------------------
(* C12 - A missing configuration file is not an error: a load that         *)
(* resolves to a library with a manifest and with neither a .twistrc nor a *)
(* .twistrc.js - the library not being registered yet with these options,  *)
(* and its name not being registered with another version - returns        *)
(* without raising, appends exactly one record carrying the manifest's     *)
(* name and version, emits one warning, does not call mergeConfig, leaves  *)
(* decorators, components, plugins and options unchanged, and leaves       *)
(* currentLibrary at its value before the call.                            *)
HasConfigFile(libraryPath) ==
    ExistsSync(Join(libraryPath, ".twistrc")) \/ ExistsSync(Join(libraryPath, ".twistrc.js"))

Registers(libraryPath, options) ==
    /\ libraryPath # Unresolved
    /\ PackageJson(libraryPath).valid
    /\ ~\E i \in Ids : /\ libraryInfos[i].path = libraryPath
                        /\ JSONStringify(libraryInfos[i].options) = JSONStringify(options)

Conflicts(libraryPath) ==
    \E i \in Ids : /\ libraryInfos[i].name = PackageJson(libraryPath).name
                    /\ libraryInfos[i].version # PackageJson(libraryPath).version

C12_MissingConfigurationFile ==
    [][ ( /\ LoadCalled
          /\ Registers(GetRootDir(call'.library), call'.options)
          /\ ~Conflicts(GetRootDir(call'.library))
          /\ ~HasConfigFile(GetRootDir(call'.library)) )
        => ( /\ err' = "none"
             /\ Len(libraryInfos') = Len(libraryInfos) + 1
             /\ SubSeq(libraryInfos', 1, Len(libraryInfos)) = libraryInfos
             /\ Last(libraryInfos').path = GetRootDir(call'.library)
             /\ Last(libraryInfos').name = PackageJson(GetRootDir(call'.library)).name
             /\ Last(libraryInfos').version = PackageJson(GetRootDir(call'.library)).version
             /\ warnings' = Append(warnings, call'.library)
             /\ mergeCalls' = mergeCalls
             /\ UNCHANGED <<_decorators, _components, _babelPlugins, _options>>
             /\ currentLibrary' = currentLibrary
             /\ stack' = IF stack = <<>> THEN <<>> ELSE Advanced ) ]_vars

\* The library without a configuration file was loaded as a sub-library:
\* the enclosing library is the current one again and its merge goes on.
C12_Witness ==
    /\ call.op = "load"
    /\ GetRootDir(call.library) = cwd
    /\ libraryInfos # <<>> /\ Last(libraryInfos).path = cwd
    /\ warnings # <<>> /\ Last(warnings) = call.library
    /\ currentLibrary = Last(libraryInfos).parentLibrary
    /\ currentLibrary # RootId
    /\ InMerge

-----------------------------------------------------------------------------
(* C13 - auto-import view: in every state twistOptions.autoImport has as   *)
(* keys the union of the decorator names and the component names and maps  *)
(* a name to the component declaration if the name is a component, else to *)
(* the decorator declaration; twistOptions.plugins is the current plugin   *)
(* list.                                                                   *)
C13_AutoImportView ==
    /\ DOMAIN twistOptions["autoImport"] = (DOMAIN _decorators) \cup (DOMAIN _components)
    /\ \A n \in (DOMAIN _decorators) \cup (DOMAIN _components) :
          twistOptions["autoImport"][n] = IF n \in DOMAIN _components THEN _components[n]
                                          ELSE _decorators[n]
    /\ twistOptions["plugins"] = _babelPlugins

\* A name is both a decorator and a component, with different declarations,
\* next to names that are only one of the two, and plugins are registered.
C13_Witness ==
    /\ \E n \in (DOMAIN _decorators) \cap (DOMAIN _components) : _decorators[n] # _components[n]
    /\ (DOMAIN _decorators) \ (DOMAIN _components) # {}
    /\ (DOMAIN _components) \ (DOMAIN _decorators) # {}
    /\ _babelPlugins # <<>>

-----------------------------------------------------------------------------
(* C14 - libraryLocations view: in every state libraryLocations has        *)
(* exactly the names of the registry entries as keys and maps each name to *)
(* the path of the last registry entry with that name; the registry keeps  *)
(* every entry (it only grows at its end); twistOptions.aliases contains   *)
(* every libraryLocations entry and the fixed alias of the inherits helper.*)
LastNamed(name) ==
    CHOOSE i \in Ids : /\ libraryInfos[i].name = name
                       /\ \A j \in Ids : libraryInfos[j].name = name => j <= i

LocationsView ==
    /\ DOMAIN libraryLocations = { libraryInfos[i].name : i \in Ids }
    /\ \A n \in DOMAIN libraryLocations :
          /\ libraryLocations[n] = libraryInfos[LastNamed(n)].path
          /\ n \in DOMAIN twistOptions["aliases"]
          /\ twistOptions["aliases"][n] = libraryLocations[n]
    /\ "babel-runtime/helpers/inherits" \in DOMAIN twistOptions["aliases"]
    /\ twistOptions["aliases"]["babel-runtime/helpers/inherits"] = inheritsHelper

C14_LibraryLocationsView ==
    /\ []LocationsView
    /\ [][ /\ Len(libraryInfos') >= Len(libraryInfos)
           /\ SubSeq(libraryInfos', 1, Len(libraryInfos)) = libraryInfos ]_vars

\* LibraryB was loaded from two directories: both entries are in the
\* registry and the view has the path of the later one.
C14_Witness ==
    /\ \E i, j \in Ids : /\ i < j
                         /\ libraryInfos[i].path = LibraryB
                         /\ libraryInfos[j].path = LibraryB4
    /\ libraryLocations["LibraryB"] = LibraryB4
    /\ Cardinality(DOMAIN libraryLocations) < Len(libraryInfos)

-----------------------------------------------------------------------------
(* C15 - Root suppression: a constructor called with root = null performs  *)
(* no load: when it returns the registry is empty, there are no            *)
(* decorators, components or plugins, currentLibrary is the '(root)'       *)
(* record, every schema option has the value passed for it, else its       *)
(* default, and the context is the name given, 'node' when none is.  A     *)
(* constructor called with root omitted or set to a path performs exactly  *)
(* one top-level addLibrary, of that root (of the working directory when   *)
(* omitted): every other load made before it returns is made by a          *)
(* mergeConfig in progress.                                                *)
Constructed == pc = "ready" /\ calls = 0 /\ call.op = "constructor"

RootSuppressed ==
    ( Constructed /\ Get(ctorOptions, "root") = Null ) =>
        /\ libraryInfos = <<>>
        /\ mergeCalls = <<>>
        /\ warnings = <<>>
        /\ DOMAIN _decorators = {}
        /\ DOMAIN _components = {}
        /\ _babelPlugins = <<>>
        /\ currentLibrary = RootId
        /\ err = "none"
        /\ \A k \in SchemaOptions :
              _options[k] = IF HasKey(ctorOptions, k) THEN Get(ctorOptions, k)
                            ELSE DEFAULT_OPTIONS[k]
        /\ context = IF call.name = Undefined THEN "node" ELSE call.name

C15_RootSuppression ==
    /\ []RootSuppressed
    /\ []( ( pc = "ready" /\ Get(ctorOptions, "root") = Null /\ calls = 0 ) => Constructed )
    /\ [][ pc = "constructor" =>
             IF Get(ctorOptions, "root") = Null
             THEN pc' = "ready" /\ call' = call
             ELSE /\ call' = Called("load",
                                    IF HasKey(ctorOptions, "root")
                                    THEN LibraryName(Get(ctorOptions, "root")) ELSE cwd,
                                    EmptyObject, Undefined, Undefined)
                  /\ pc' # "constructor" ]_vars
    /\ [][ ( pc = "constructing" /\ call'.op = "load" ) => InMerge ]_vars

\* A constructor called with root = null and a value for includeBabelRuntime,
\* and with no context name, has returned.
C15_Witness ==
    /\ Constructed
    /\ Get(ctorOptions, "root") = Null
    /\ call.name = Undefined
    /\ context = "node"
    /\ _options["includeBabelRuntime"] = "true"
    /\ _options["polyfill"] = DEFAULT_OPTIONS["polyfill"]
    /\ libraryInfos = <<>>

-----------------------------------------------------------------------------
(* C16 - Errors are fatal to the whole call chain: a step of a recursive   *)
(* load / mergeConfig that raises ResolutionError, ManifestParseError,     *)
(* VersionConflictError, ConfigParseError or UnknownOptionError ends every *)
(* enclosing load and mergeConfig at once - no later merge step of an      *)
(* enclosing document runs - , the caller of the top-level addLibrary or   *)
(* of the constructor gets that same error, and nothing is retried: the    *)
(* next step, if any, is a new call made by the owner.                     *)
ErrorOfLoad(libraryName, options) ==
    LET libraryPath == GetRootDir(libraryName)
    IN  IF libraryPath = Unresolved THEN "ResolutionError"
        ELSE IF \E i \in Ids : /\ libraryInfos[i].path = libraryPath
                               /\ JSONStringify(libraryInfos[i].options) = JSONStringify(options)
        THEN "none"
        ELSE IF ~PackageJson(libraryPath).valid THEN "ManifestParseError"
        ELSE IF Conflicts(libraryPath) THEN "VersionConflictError"
        ELSE IF ExistsSync(Join(libraryPath, ".twistrc")) /\ ~StaticFile(libraryPath).valid
        THEN "ConfigParseError"
        ELSE "none"

\* The error the step just taken raises, "none" if it raises none.
ErrorRaised ==
    IF call'.op = "load" THEN ErrorOfLoad(call'.library, call'.options)
    ELSE IF call'.op = "setOption" /\ call'.name \notin DOMAIN _options THEN "UnknownOptionError"
    ELSE "none"

MergeSteps == { "addDecorator", "addComponent", "addBabelPlugin", "setOption", "mergeConfig",
               "load", "return" }

C16_ErrorsAreFatal ==
    /\ [][ /\ err' = ErrorRaised
           /\ ErrorRaised # "none" =>
                 /\ stack' = <<>>
                 /\ UNCHANGED <<_options, _components, _decorators, _babelPlugins, mergeCalls>> ]_vars
    /\ []( err # "none" => stack = <<>> )
    /\ [][ err # "none" => ( stack = <<>> /\ calls' = calls + 1 ) ]_vars
    /\ [][ ( call'.op \in MergeSteps /\ calls' = calls /\ pc # "constructor" )
           => ( stack # <<>> /\ err = "none" ) ]_vars

\* LibraryA -> LibraryB 2.0 -> LibraryC -> LibraryB 4.0 has failed at depth
\* four: LibraryB's decorator Task, declared after its libraries, was never
\* applied, and the owner has the VersionConflictError.
C16_Witness ==
    /\ err = "VersionConflictError"
    /\ stack = <<>>
    /\ \E a, b, c, d \in Ids :
          /\ libraryInfos[a].path = LibraryA
          /\ libraryInfos[b].path = LibraryB /\ libraryInfos[b].parentLibrary = a
          /\ libraryInfos[c].path = LibraryC /\ libraryInfos[c].parentLibrary = b
          /\ libraryInfos[d].path = LibraryB4 /\ libraryInfos[d].parentLibrary = c
          /\ "Task" \in NamesOf(DocumentOf(libraryInfos[b]), "addDecorator")
    /\ "Task" \notin DOMAIN _decorators

-----------------------------------------------------------------------------
(* C17 - Stack discipline of the active record: at every point of an       *)
(* execution in which no error is raised, currentLibrary is the record of  *)
(* the innermost load in progress, and its parent chain lists exactly the  *)
(* loads in progress, innermost to outermost, and ends at the '(root)'     *)
(* record; so the document being merged - its decorators and components    *)
(* come after its sub-libraries - is the document of currentLibrary.       *)
RECURSIVE ParentChain(_)
ParentChain(id) ==
    IF id = RootId THEN <<RootId>>
    ELSE <<id>> \o ParentChain(libraryInfos[id].parentLibrary)

\* The records of the load() activations on the call stack, innermost first.
LoadsInProgress ==
    LET frames == SelectSeq(stack, LAMBDA frame : frame.kind = "load")
    IN  [i \in 1..Len(frames) |-> frames[i].libraryInfo]

StackDiscipline ==
    /\ ParentChain(currentLibrary) = LoadsInProgress \o <<RootId>>
    /\ InMerge =>
          /\ currentLibrary # RootId
          /\ LET D == DocumentOf(libraryInfos[currentLibrary])
             IN  \/ Top.config = D
                 \/ D.context.given /\ Top.config = ContextConfig(D.context, context)

C17_StackDiscipline == [](err = "none") => []StackDiscipline

\* The first call on a configuration constructed without a root is
\* addLibrary(testLibrary4): its three sub-libraries are loaded and returned,
\* and its own component is about to be applied.
C17_Witness ==
    /\ Get(ctorOptions, "root") = Null
    /\ calls = 1
    /\ err = "none"
    /\ InMerge
    /\ Op.op = "addComponent"
    /\ Len(libraryInfos) = 4
    /\ libraryInfos[currentLibrary].path = testLibrary4
    /\ LoadsInProgress = <<currentLibrary>>

-----------------------------------------------------------------------------
(* C19 - Load-chain trace shape: for a record with k ancestors (its parent *)
(* chain up to and including the '(root)' record) the trace has exactly    *)
(* k+1 lines; line 0 is the record's own 'name version'; line i > 0 is     *)
(* 'loaded by' followed by the i-th ancestor's 'name version'; line i is   *)
(* indented by 4 + 2*i spaces; the last line is '(root)' with no version.  *)
NameVersion(library) ==
    IF library = RootLibrary THEN <<"(root)">> ELSE <<library.name, library.version>>

TraceShape(id) ==
    LET chain == ParentChain(id)
        k == Len(chain) - 1
        trace == getLibraryChainStackTrace(id)
    IN  /\ Len(trace) = k + 1
        /\ trace[1] = [indent |-> 4, prefix |-> "", text |-> NameVersion(Library(id))]
        /\ \A i \in 1..k :
              trace[i + 1] = [indent |-> 4 + 2 * i, prefix |-> "loaded by",
                              text |-> NameVersion(Library(chain[i + 1]))]
        /\ trace[k + 1].text = <<"(root)">>

C19_TraceShape == \A id \in Ids \cup {currentLibrary} : TraceShape(id)

\* The chain of the duplicate-handling test: the trace of LibraryB 4.0 has
\* the five lines the test expects.
C19_Witness ==
    \E id \in Ids :
        getLibraryChainStackTrace(id) =
            << [indent |-> 4,  prefix |-> "",          text |-> <<"LibraryB", "4.0">>],
               [indent |-> 6,  prefix |-> "loaded by", text |-> <<"LibraryC", "3.0">>],
               [indent |-> 8,  prefix |-> "loaded by", text |-> <<"LibraryB", "2.0">>],
               [indent |-> 10, prefix |-> "loaded by", text |-> <<"LibraryA", "1.0">>],
               [indent |-> 12, prefix |-> "loaded by", text |-> <<"(root)">>] >>

-----------------------------------------------------------------------------
(* C18 - VersionConflictError content: the error raised by a conflicting   *)
(* load names the new record (name, version) and an existing record with   *)
(* the same name and a different version, and embeds the new record's      *)
(* load-chain trace first and the existing record's trace second; the new  *)
(* record's chain is the new record followed by the loads in progress at   *)
(* the time of the failure, innermost to outermost, and '(root)'.          *)
ConflictNamed ==
    \E new \in { Len(libraryInfos) + 1 } :
        /\ Len(libraryInfos') = new
        /\ message'.loading = <<libraryInfos'[new].name, libraryInfos'[new].version>>
        /\ Len(message'.traces) = 2
        /\ message'.traces[1] = getLibraryChainStackTrace(new)'
        /\ \E existing \in Ids :
              /\ libraryInfos[existing].name = libraryInfos'[new].name
              /\ libraryInfos[existing].version # libraryInfos'[new].version
              /\ message'.loaded = <<libraryInfos[existing].name, libraryInfos[existing].version>>
              /\ message'.traces[2] = getLibraryChainStackTrace(existing)'

ChainInProgress ==
    \E new \in { Len(libraryInfos) + 1 } :
        ParentChain(new)' = <<new>> \o LoadsInProgress \o <<RootId>>

C18_ConflictErrorContent ==
    [][ err' = "VersionConflictError" => ( ConflictNamed /\ ChainInProgress ) ]_vars

-----------------------------------------------------------------------------
(* C20 - Parent-chain invariant: in every reachable state, failed loads    *)
(* included, no step changes the parent pointer of a registry entry, and   *)
(* following the parent pointers from any registry entry or from           *)
(* currentLibrary visits no record twice and ends at the '(root)' record.  *)
RECURSIVE Walk(_, _)
Walk(id, steps) ==
    IF id \notin Ids \/ steps = 0 THEN <<id>>
    ELSE <<id>> \o Walk(libraryInfos[id].parentLibrary, steps - 1)

EndsAtRoot(id) ==
    LET walk == Walk(id, Len(libraryInfos) + 1)
    IN  /\ Last(walk) = RootId
        /\ \A i, j \in 1..Len(walk) : walk[i] = walk[j] => i = j

C20_ParentChain ==
    /\ [](\A id \in Ids \cup {currentLibrary} : EndsAtRoot(id))
    /\ [][ \A id \in Ids : libraryInfos'[id].parentLibrary = libraryInfos[id].parentLibrary ]_vars

\* After a failed load (currentLibrary is the record it left behind) a later
\* chain of loads hangs below that record.
C20_Witness ==
    /\ stack = <<>>
    /\ err # "none"
    /\ currentLibrary # RootId
    /\ \E id \in Ids :
          /\ Len(ParentChain(id)) >= 4
          /\ \E i \in 2..Len(ParentChain(id)) - 1 :
                /\ ParentChain(id)[i + 1] = RootId
                /\ libraryInfos[ParentChain(id)[i]].path = invalidLibrary

-----------------------------------------------------------------------------
(* C21 - Distinct options mean a distinct load: a load of a path that is   *)
(* in the registry, with options that are not structurally equal to those  *)
(* of any entry for that path, is a second full load - it appends an entry *)
(* for the same path with the new options, obtains the configuration       *)
(* document again with these options and calls mergeConfig with it; and    *)
(* the registry holds one entry per distinct (path, options) pair.         *)
SecondFullLoad ==
    LET libraryPath == GetRootDir(call'.library)
    IN  ( /\ LoadCalled
          /\ \E i \in Ids : libraryInfos[i].path = libraryPath
          /\ \A i \in Ids : libraryInfos[i].path = libraryPath
                              => ~StructurallyEqual(libraryInfos[i].options, call'.options)
          /\ ~Conflicts(libraryPath)
          /\ HasConfigFile(libraryPath) )
        => ( /\ libraryInfos' = Append(libraryInfos,
                                       LibraryInfo(libraryPath, call'.options, currentLibrary))
             /\ mergeCalls' = Append(mergeCalls,
                                     [library |-> Len(libraryInfos) + 1,
                                      config |-> LoadConfigFile(libraryPath, call'.options).config])
             /\ err' = "none" )

C21_DistinctOptionsDistinctLoad ==
    /\ [][SecondFullLoad]_vars
    /\ [](\A i, j \in Ids :
            ( i < j /\ libraryInfos[i].path = libraryInfos[j].path )
            => ~StructurallyEqual(libraryInfos[j].options, libraryInfos[i].options))

-----------------------------------------------------------------------------
(* C22 - Configuration document selection: a load that registers its       *)
(* library hands to mergeConfig (1) the parsed .twistrc if that file       *)
(* exists - a malformed one raises ConfigParseError, whether or not a      *)
(* .twistrc.js exists -, else (2) if .twistrc.js exists, its value applied *)
(* to the options of the load when it is a function, the value itself      *)
(* when it is not, in one mergeConfig call; else (3) nothing: mergeConfig  *)
(* is not called.                                                          *)
Merged(config) ==
    /\ mergeCalls' = Append(mergeCalls, [library |-> Len(libraryInfos) + 1, config |-> config])
    /\ err' = "none"

DocumentSelected ==
    LET libraryPath == GetRootDir(call'.library)
    IN  ( /\ LoadCalled
          /\ Registers(libraryPath, call'.options)
          /\ ~Conflicts(libraryPath) )
        => IF ExistsSync(Join(libraryPath, ".twistrc"))
           THEN IF StaticFile(libraryPath).valid
                THEN Merged(StaticFile(libraryPath).config)
                ELSE err' = "ConfigParseError" /\ mergeCalls' = mergeCalls
           ELSE IF ExistsSync(Join(libraryPath, ".twistrc.js"))
                THEN Merged(DynamicFile(libraryPath, call'.options))
                ELSE err' = "none" /\ mergeCalls' = mergeCalls

-----------------------------------------------------------------------------
(* C23 - Monotone accumulation: in every step (failing ones included) the  *)
(* key sets of decorators, components and options do not shrink, the       *)
(* plugin list and the registry change only by appending, and the value    *)
(* under a key changes only in a step that writes that key (addDecorator,  *)
(* addComponent or setOption of that name).                                *)
IsPrefix(a, b) == Len(a) <= Len(b) /\ SubSeq(b, 1, Len(a)) = a

OverwrittenOnlyBy(object, objectAfter, op) ==
    \A k \in DOMAIN object :
        objectAfter[k] # object[k] => ( call'.op = op /\ PropertyKey(call'.name) = k )

Accumulates ==
    /\ (DOMAIN _decorators) \subseteq (DOMAIN _decorators')
    /\ (DOMAIN _components) \subseteq (DOMAIN _components')
    /\ (DOMAIN _options) \subseteq (DOMAIN _options')
    /\ IsPrefix(_babelPlugins, _babelPlugins')
    /\ IsPrefix(libraryInfos, libraryInfos')
    /\ OverwrittenOnlyBy(_decorators, _decorators', "addDecorator")
    /\ OverwrittenOnlyBy(_components, _components', "addComponent")
    /\ OverwrittenOnlyBy(_options, _options', "setOption")

C23_MonotoneAccumulation == [][Accumulates]_vars

\* testLibrary4 has just overwritten the component its sub-library
\* testLibrary1 declared, next to the declarations of its other sub-libraries.
C23_Witness ==
    /\ call.op = "addComponent"
    /\ call.name = "my:component"
    /\ _components["my:component"] = Declaration("my-module", "OverriddenComponent", NoInherits)
    /\ Cardinality(DOMAIN _components) >= 2
    /\ "Store" \in DOMAIN _decorators
    /\ _babelPlugins # <<>>
    /\ Len(libraryInfos) >= 4

-----------------------------------------------------------------------------
(* C24 - Input-shape equivalence: a section given as an ordered sequence   *)
(* of [name, value] pairs produces the same accumulated state as the same  *)
(* entries given as a mapping name -> value, for every value of the        *)
(* section (declarations, library options, plugin options, option values); *)
(* in the sequence form empty entries are skipped and a bare name stands   *)
(* for that name with an empty value.  Stated on the calls mergeConfig     *)
(* makes, which determine the accumulated state: for every document being  *)
(* merged they are the calls made for its mapping form.                    *)
AsProp(entry, empty) == Prop(entry.name, IF entry.given THEN entry.value ELSE empty)

AsMapping(section, empty) ==
    IF section.form # "array" THEN section
    ELSE LET entries == SelectSeq(section.entries, LAMBDA entry : entry.kind # "hole")
         IN  ObjectOf([i \in 1..Len(entries) |-> AsProp(entries[i], empty)])

MappingForm(config) ==
    Document(AsMapping(config.libraries, EmptyObject),
             AsMapping(config.decorators, EmptyDeclaration),
             AsMapping(config.components, EmptyDeclaration),
             AsMapping(config.babelPlugins, "{}"),
             AsMapping(config.options, "{}"),
             config.context)

C24_InputShapeEquivalence ==
    ( stack # <<>> /\ Top.kind = "mergeConfig" ) =>
        MergeOps(Top.config) = MergeOps(MappingForm(Top.config))

-----------------------------------------------------------------------------
(* C25 - Termination on cyclic library graphs: every addLibrary (and every *)
(* constructor) that has started returns or throws, also when libraries    *)
(* declare each other.  A record is registered before its document is      *)
(* merged and a load of a registered (path, options) returns at once, so   *)
(* the entries of the registry are distinct (path, options) pairs - as     *)
(* load compares them - out of a finite set, and the document of each is   *)
(* merged at most once; and every step of a call in progress either        *)
(* registers a new pair or brings the activations on the call stack closer *)
(* to their return.  Both together leave no infinite execution of a call.  *)

\* The steps mergeConfig(config) has to make, its return included, when no
\* sub-library has anything left to load.
RECURSIVE StepsOf(_)
StepsOf(config) ==
    Len(MergeOps(config)) + 1
    + IF config.context.given THEN StepsOf(ContextConfig(config.context, context)) ELSE 0

\* The steps an activation on the call stack has left.
StepsLeft(frame) ==
    IF frame.kind = "load" THEN 1
    ELSE IF frame.i > Len(MergeOps(frame.config)) THEN 1
    ELSE StepsOf(frame.config) - (frame.i - 1)

RECURSIVE StepsLeftOn(_)
StepsLeftOn(frames) ==
    IF frames = <<>> THEN 0 ELSE StepsLeft(Head(frames)) + StepsLeftOn(Tail(frames))

\* The options bags a load is called with: those of the owner's calls and
\* those the documents pass to their sub-libraries.
OptionsTexts ==
    { JSONStringify(args[2]) : args \in TopLevelLoads }
    \cup { JSONStringify(<<<<"componentName", "another:component">>>>) }

MergedAtMostOnce ==
    /\ \A i \in Ids : /\ libraryInfos[i].path \in Libraries
                       /\ JSONStringify(libraryInfos[i].options) \in OptionsTexts
    /\ \A i, j \in Ids :
          ( i # j /\ libraryInfos[i].path = libraryInfos[j].path )
          => JSONStringify(libraryInfos[i].options) # JSONStringify(libraryInfos[j].options)
    /\ \A m, n \in 1..Len(mergeCalls) :
          ( /\ mergeCalls[m].library = mergeCalls[n].library
            /\ mergeCalls[m].config = DocumentOf(libraryInfos[mergeCalls[m].library])
            /\ mergeCalls[n].config = mergeCalls[m].config )
          => m = n

Progresses ==
    stack # <<>> =>
        \/ Len(libraryInfos') = Len(libraryInfos) + 1
        \/ /\ libraryInfos' = libraryInfos
           /\ StepsLeftOn(stack') < StepsLeftOn(stack)

C25_Termination ==
    /\ []MergedAtMostOnce
    /\ [][Progresses]_vars
    /\ []( stack # <<>> => ( Top.kind = "load" \/ Top.kind = "mergeConfig" ) )

\* addLibrary('ping') has returned: ping declares pong and pong declares
\* ping; both are registered, pong below ping, and each was merged.
C25_Witness ==
    /\ stack = <<>>
    /\ err = "none"
    /\ \E i, j \in Ids :
          /\ libraryInfos[i].path = ping /\ libraryInfos[j].path = pong
          /\ libraryInfos[j].parentLibrary = i
          /\ \E m, n \in 1..Len(mergeCalls) :
                /\ mergeCalls[m] = [library |-> i, config |-> pingConfig]
                /\ mergeCalls[n] = [library |-> j, config |-> pongConfig]
    /\ <<"pong">> \in NamesOf(pingConfig, "addLibrary")
    /\ <<"ping">> \in NamesOf(pongConfig, "addLibrary")

-----------------------------------------------------------------------------
(* C26 - Retry after a failed load is a silent no-op: the record of a load *)
(* that failed with VersionConflictError or ConfigParseError stays in the  *)
(* registry, so a later load of the same (path, options) returns normally: *)
(* it raises nothing, calls no mergeConfig, leaves the registry and the    *)
(* configuration as they are; and the document of such a record is never   *)
(* merged.                                                                 *)

\* The error the load that registered entry i ended with: the registry it
\* saw is the one up to i.
FailureOf(i) ==
    IF FindConflict(SubSeq(libraryInfos, 1, i), libraryInfos[i]) # 0 THEN "VersionConflictError"
    ELSE IF ~LoadConfigFile(libraryInfos[i].path, libraryInfos[i].options).valid
    THEN "ConfigParseError"
    ELSE "none"

\* The entries load(libraryName, options) is a retry of.
FailedLoadsOf(libraryName, options) ==
    { i \in Ids : /\ libraryInfos[i].path = GetRootDir(libraryName)
                  /\ JSONStringify(libraryInfos[i].options) = JSONStringify(options)
                  /\ FailureOf(i) # "none" }

C26_RetryIsSilent ==
    /\ [][ ( LoadCalled /\ FailedLoadsOf(call'.library, call'.options) # {} )
           => ( /\ err' = "none"
                /\ message' = NoMessage
                /\ stack' = IF stack = <<>> THEN <<>> ELSE Advanced
                /\ UNCHANGED <<libraryInfos, mergeCalls, warnings, configurationVars>> ) ]_vars
    /\ [][ err' \in {"VersionConflictError", "ConfigParseError"}
           => \E new \in { Len(libraryInfos) + 1 } :
                 /\ Len(libraryInfos') = new
                 /\ FailureOf(new)' = err' ]_vars
    /\ []( \A m \in 1..Len(mergeCalls) : FailureOf(mergeCalls[m].library) = "none" )

\* addLibrary('LibraryA') has failed on LibraryB 4.0, and the owner's
\* addLibrary of LibraryB 4.0 after it has returned without an error.
C26_Witness ==
    /\ stack = <<>> /\ pc = "ready"
    /\ calls = 2
    /\ call.op = "load"
    /\ err = "none"
    /\ \E i \in FailedLoadsOf(call.library, call.options) :
          /\ FailureOf(i) = "VersionConflictError"
          /\ i = Len(libraryInfos)

-----------------------------------------------------------------------------
(* C27 - A conflicting library contributes nothing: load looks for another *)
(* version of the library's name before it locates the library's document, *)
(* so a load that registers a record whose name the registry holds in      *)
(* another version fails with VersionConflictError whatever its document   *)
(* is, and leaves decorators, components, the plugin list and the options  *)
(* as they were when it was called; what the documents merged before it    *)
(* declared - those of earlier sub-libraries included - stays.             *)

\* load(libraryName, options) registers a record, and the registry holds its
\* name in another version.
RegistersConflict(libraryName, options) ==
    /\ Registers(GetRootDir(libraryName), options)
    /\ Conflicts(GetRootDir(libraryName))

C27_ConflictContributesNothing ==
    /\ [][ ( LoadCalled /\ RegistersConflict(call'.library, call'.options) )
           => ( /\ err' = "VersionConflictError"
                /\ UNCHANGED <<_decorators, _components, _babelPlugins, _options>>
                /\ UNCHANGED <<mergeCalls, warnings>>
                /\ stack' = <<>> ) ]_vars
    /\ [][ err' = "VersionConflictError"
           => ( LoadCalled /\ RegistersConflict(call'.library, call'.options) ) ]_vars
    /\ []( err = "VersionConflictError"
           => \A m \in 1..Len(mergeCalls) : mergeCalls[m].library # Len(libraryInfos) )

\* addLibrary('mixed') has failed on LibraryB 5.0, whose .twistrc is not
\* JSON: what testLibrary1 and LibraryB 4.0 declared before it is in the
\* configuration, and the decorator mixed declares after its libraries is not.
C27_Witness ==
    /\ err = "VersionConflictError"
    /\ calls = 1
    /\ Last(libraryInfos).path = LibraryB5
    /\ ~LoadConfigFile(LibraryB5, EmptyObject).valid
    /\ "Store" \in DOMAIN _decorators
    /\ "my:component" \in DOMAIN _components
    /\ "Task4" \in DOMAIN _decorators
    /\ Registered("plugin4")
    /\ _options["polyfill"] = "4.0"
    /\ "Late" \notin DOMAIN _decorators

====
